---- MODULE Spec2Model ----
(***************************************************************************)
(* Word-level comparison of a signed contract against its original         *)
(* (src/app.py): normalize, the difflib alignment behind                   *)
(* SequenceMatcher.get_opcodes, the dual-cursor walk of highlight_changes,  *)
(* the Counter.most_common summary and infer_implications_from_terms.       *)
(*                                                                         *)
(* A text is a sequence of characters; a character is a one-letter string, *)
(* or the name of a code point ("U0300") for the non-ASCII ones.  A token  *)
(* is a non-empty sequence of characters.  Indices into token lists are    *)
(* 0-based as in the source; the TLA+ sequence element is at index + 1.     *)
(***************************************************************************)
EXTENDS Integers, Sequences, FiniteSets, TLC

VARIABLES text_old, text_new, pc, opcodes, op, phase, cnt,
          idx_new_word, idx_old_word, stream,
          added_words, deleted_words, replaced_old, replaced_new,
          read_oob, summary, implications,
          fin, fout, fpc

pvars == <<text_old, text_new, pc, opcodes, op, phase, cnt,
           idx_new_word, idx_old_word, stream,
           added_words, deleted_words, replaced_old, replaced_new,
           read_oob, summary, implications>>
fvars == <<fin, fout, fpc>>
vars == <<pvars, fvars>>

\* ------------------------------------------------------------ bounds
\* longest text, in characters, of the character-level specification
MaxLen == 3
\* longest text, in tokens, of the word-level specification
MaxTok == 4
\* longest category list drawn exhaustively for the ranking
MaxRankLen == 3
\* tokens appended to a list of pairwise distinct tokens for the ranking
MaxExtra == 2
\* longest list of changed terms handed to the classifier
MaxTerms == 2

\* ------------------------------------------------------------ helpers
Min(x, y) == IF x <= y THEN x ELSE y

SeqsUpTo(S, n) == UNION {[1..k -> S] : k \in 0..n}

RECURSIVE Concat(_)
Concat(ss) == IF ss = <<>> THEN <<>> ELSE Head(ss) \o Concat(Tail(ss))

\* sep.join(words)
RECURSIVE Join(_, _)
Join(words, sep) ==
  IF words = <<>> THEN <<>>
  ELSE IF Len(words) = 1 THEN Head(words)
  ELSE Head(words) \o sep \o Join(Tail(words), sep)

\* ------------------------------------------------------------ normalize
UpperCase == <<"A","B","C","D","E","F","G","H","I","J","K","L","M",
               "N","O","P","Q","R","S","T","U","V","W","X","Y","Z">>
LowerCase == <<"a","b","c","d","e","f","g","h","i","j","k","l","m",
               "n","o","p","q","r","s","t","u","v","w","x","y","z">>

\* str.isspace: what str.split() and the pattern \s+ treat as whitespace
IsSpace(c) == c \in {" ", "\t", "\n", "U00A0"}

\* unidecode.unidecode on one character: ASCII is kept; a letter with a
\* diacritic loses it; the combining grave accent U+0300 has the empty
\* transliteration; the ideograph U+963F transliterates to "A " (a syllable
\* followed by a space); the no-break space U+00A0 becomes a space.
unidecode(c) ==
  CASE c = "U0300" -> <<>>
    [] c = "U963F" -> <<"A", " ">>
    [] c = "U00A0" -> <<" ">>
    [] c = "U00F3" -> <<"o">>
    [] c = "U00ED" -> <<"i">>
    [] c = "U00C1" -> <<"A">>
    [] OTHER -> <<c>>

\* str.lower on one (ASCII) character
lower(c) ==
  IF \E k \in 1..26 : UpperCase[k] = c
  THEN LowerCase[CHOOSE k \in 1..26 : UpperCase[k] = c]
  ELSE c

\* re.sub(r'\s+', ' ', text): every run of whitespace becomes one space
RECURSIVE collapse(_, _)
collapse(text, inrun) ==
  IF text = <<>> THEN <<>>
  ELSE IF IsSpace(Head(text))
       THEN (IF inrun THEN <<>> ELSE <<" ">>) \o collapse(Tail(text), TRUE)
       ELSE <<Head(text)>> \o collapse(Tail(text), FALSE)

RECURSIVE lstrip(_)
lstrip(text) ==
  IF text # <<>> /\ IsSpace(Head(text)) THEN lstrip(Tail(text)) ELSE text

RECURSIVE rstrip(_)
rstrip(text) ==
  IF text # <<>> /\ IsSpace(text[Len(text)])
  THEN rstrip(SubSeq(text, 1, Len(text) - 1)) ELSE text

strip(text) == rstrip(lstrip(text))

normalize(text) ==
  LET t1 == Concat([k \in 1..Len(text) |-> unidecode(text[k])])
      t2 == [k \in 1..Len(t1) |-> lower(t1[k])]
  IN  strip(collapse(t2, FALSE))

\* str.split(): the maximal runs of non-whitespace characters, in order
RECURSIVE split_from(_, _)
split_from(text, cur) ==
  IF text = <<>> THEN (IF cur = <<>> THEN <<>> ELSE <<cur>>)
  ELSE IF IsSpace(Head(text))
       THEN (IF cur = <<>> THEN <<>> ELSE <<cur>>) \o split_from(Tail(text), <<>>)
       ELSE split_from(Tail(text), Append(cur, Head(text)))

split(text) == split_from(text, <<>>)

\* ------------------------------------------------------------ difflib
\* SequenceMatcher(None, a, b): no junk predicate; autojunk drops from the
\* index b2j the elements of b that occur more than len(b) // 100 + 1 times,
\* once b holds at least 200 elements.
count_in(b, elt) == Cardinality({j \in 1..Len(b) : b[j] = elt})

popular(b, elt) ==
  Len(b) >= 200 /\ count_in(b, elt) > (Len(b) \div 100) + 1

\* the index is not keyed by the element: every position of b is a hit
in_b2j_any(b, elt, j) == ~popular(b, elt)

\* j \in b2j[elt], j 0-based
in_b2j(b, elt, j) == b[j + 1] = elt /\ ~popular(b, elt)

\* the rows of find_longest_match: j2len[j] is the length of the longest
\* match ending with a[i-1] and b[j]; the best block is replaced only by a
\* strictly longer one, rows and columns being visited in ascending order.
RECURSIVE flm_rows(_, _, _, _, _, _, _, _, _)
flm_rows(a, b, alo, ahi, blo, bhi, i, j2len, best) ==
  IF i >= ahi THEN best
  ELSE
    LET newj2len == [j \in 0..(Len(b) - 1) |->
                       IF j >= blo /\ j < bhi /\ in_b2j(b, a[i + 1], j)
                       THEN (IF j = 0 THEN 0 ELSE j2len[j - 1]) + 1
                       ELSE 0]
        hits == {j \in 0..(Len(b) - 1) : newj2len[j] > best.size}
        m == IF hits = {} THEN 0
             ELSE CHOOSE k \in {newj2len[j] : j \in hits} :
                    \A j \in hits : newj2len[j] <= k
        jm == IF hits = {} THEN 0
              ELSE CHOOSE j \in hits :
                     /\ newj2len[j] = m
                     /\ \A j2 \in hits : newj2len[j2] = m => j <= j2
        newbest == IF hits = {} THEN best
                   ELSE [i |-> i - m + 1, j |-> jm - m + 1, size |-> m]
    IN  flm_rows(a, b, alo, ahi, blo, bhi, i + 1, newj2len, newbest)

\* the extension loops of find_longest_match over matching elements left
\* out of b2j (nothing is junk, so only the two non-junk loops can run)
RECURSIVE extend_left(_, _, _, _, _)
extend_left(a, b, alo, blo, best) ==
  IF best.i > alo /\ best.j > blo /\ a[best.i] = b[best.j]
  THEN extend_left(a, b, alo, blo,
                   [i |-> best.i - 1, j |-> best.j - 1, size |-> best.size + 1])
  ELSE best

RECURSIVE extend_right(_, _, _, _, _)
extend_right(a, b, ahi, bhi, best) ==
  IF /\ best.i + best.size < ahi
     /\ best.j + best.size < bhi
     /\ a[best.i + best.size + 1] = b[best.j + best.size + 1]
  THEN extend_right(a, b, ahi, bhi, [best EXCEPT !.size = @ + 1])
  ELSE best

find_longest_match(a, b, alo, ahi, blo, bhi) ==
  LET j2len0 == [j \in 0..(Len(b) - 1) |-> 0]
      best0 == [i |-> alo, j |-> blo, size |-> 0]
      best1 == flm_rows(a, b, alo, ahi, blo, bhi, alo, j2len0, best0)
  IN  extend_right(a, b, ahi, bhi, extend_left(a, b, alo, blo, best1))

\* get_matching_blocks: the longest block of the range, then the blocks of
\* the part left of it and the part right of it; the list is sorted, so the
\* left part's blocks come first.
RECURSIVE blocks_in(_, _, _, _, _, _)
blocks_in(a, b, alo, ahi, blo, bhi) ==
  LET x == find_longest_match(a, b, alo, ahi, blo, bhi)
  IN  IF x.size = 0 THEN <<>>
      ELSE (IF alo < x.i /\ blo < x.j
            THEN blocks_in(a, b, alo, x.i, blo, x.j) ELSE <<>>)
           \o <<x>>
           \o (IF x.i + x.size < ahi /\ x.j + x.size < bhi
               THEN blocks_in(a, b, x.i + x.size, ahi, x.j + x.size, bhi)
               ELSE <<>>)

\* adjacent blocks are merged into one
RECURSIVE collapse_blocks(_, _)
collapse_blocks(blocks, cur) ==
  IF blocks = <<>> THEN (IF cur.size > 0 THEN <<cur>> ELSE <<>>)
  ELSE LET x == Head(blocks)
       IN  IF cur.i + cur.size = x.i /\ cur.j + cur.size = x.j
           THEN collapse_blocks(Tail(blocks), [cur EXCEPT !.size = @ + x.size])
           ELSE (IF cur.size > 0 THEN <<cur>> ELSE <<>>)
                \o collapse_blocks(Tail(blocks), x)

\* the closing block (len(a), len(b), 0) is left out
get_matching_blocks_open(a, b) ==
  collapse_blocks(blocks_in(a, b, 0, Len(a), 0, Len(b)),
                  [i |-> 0, j |-> 0, size |-> 0])

get_matching_blocks(a, b) ==
  collapse_blocks(blocks_in(a, b, 0, Len(a), 0, Len(b)),
                  [i |-> 0, j |-> 0, size |-> 0])
  \o <<[i |-> Len(a), j |-> Len(b), size |-> 0]>>

\* a stretch that is empty on one side is tagged as a replacement too
gap_tag_or(i, ai, j, bj) ==
  IF i < ai \/ j < bj THEN "replace" ELSE ""

\* the tag of the stretch between the previous block's end (i, j) and the
\* next block's start (ai, bj); "" when the stretch is empty on both sides
gap_tag(i, ai, j, bj) ==
  IF i < ai /\ j < bj THEN "replace"
  ELSE IF i < ai THEN "delete"
  ELSE IF j < bj THEN "insert"
  ELSE ""

RECURSIVE opcodes_from(_, _, _)
opcodes_from(blocks, i, j) ==
  IF blocks = <<>> THEN <<>>
  ELSE LET x == Head(blocks)
           tag == gap_tag(i, x.i, j, x.j)
       IN  (IF tag # ""
            THEN <<[tag |-> tag, i1 |-> i, i2 |-> x.i, j1 |-> j, j2 |-> x.j]>>
            ELSE <<>>)
           \o (IF x.size > 0
               THEN <<[tag |-> "equal", i1 |-> x.i, i2 |-> x.i + x.size,
                       j1 |-> x.j, j2 |-> x.j + x.size]>>
               ELSE <<>>)
           \o opcodes_from(Tail(blocks), x.i + x.size, x.j + x.size)

get_opcodes(a, b) == opcodes_from(get_matching_blocks(a, b), 0, 0)

\* ------------------------------------------------------------ summary
\* Counter(words): (form, count) entries in the order the forms first occur
RECURSIVE counter_add(_, _)
counter_add(c, w) ==
  IF c = <<>> THEN <<[form |-> w, n |-> 1]>>
  ELSE IF Head(c).form = w THEN <<[Head(c) EXCEPT !.n = @ + 1]>> \o Tail(c)
  ELSE <<Head(c)>> \o counter_add(Tail(c), w)

RECURSIVE Counter(_)
Counter(words) ==
  IF words = <<>> THEN <<>>
  ELSE counter_add(Counter(SubSeq(words, 1, Len(words) - 1)), words[Len(words)])

\* sorted(items, key=count, reverse=True) is stable: an entry goes after
\* every entry already placed whose count is at least its own
\* an entry goes before the entries whose count equals its own: ties end up
\* in the reverse of the order of first occurrence
RECURSIVE insert_desc_unstable(_, _)
insert_desc_unstable(sorted, x) ==
  IF sorted = <<>> THEN <<x>>
  ELSE IF Head(sorted).n > x.n
       THEN <<Head(sorted)>> \o insert_desc_unstable(Tail(sorted), x)
  ELSE <<x>> \o sorted

RECURSIVE insert_desc(_, _)
insert_desc(sorted, x) ==
  IF sorted = <<>> THEN <<x>>
  ELSE IF Head(sorted).n >= x.n THEN <<Head(sorted)>> \o insert_desc(Tail(sorted), x)
  ELSE <<x>> \o sorted

RECURSIVE sorted_desc(_)
sorted_desc(c) ==
  IF c = <<>> THEN <<>>
  ELSE insert_desc(sorted_desc(SubSeq(c, 1, Len(c) - 1)), c[Len(c)])

\* Counter.most_common(n) == heapq.nlargest(n, items, key=count)
most_common(c, n) ==
  LET s == sorted_desc(c) IN SubSeq(s, 1, Min(n, Len(s)))

\* the n of most_common(15)
top_n == 15

top_of(words) ==
  most_common(Counter([k \in 1..Len(words) |-> normalize(words[k])]), top_n)

summary_of(added, deleted, r_old, r_new) ==
  [counts |-> [added |-> Len(added), deleted |-> Len(deleted),
               replaced_old |-> Len(r_old), replaced_new |-> Len(r_new)],
   added_top |-> top_of(added),
   deleted_top |-> top_of(deleted),
   replaced_old_top |-> top_of(r_old),
   replaced_new_top |-> top_of(r_new),
   raw_lists |-> [added |-> added, deleted |-> deleted,
                  replaced_old |-> r_old, replaced_new |-> r_new]]

\* ------------------------------------------------------------ classifier
\* the keyword families, in the order the dict declares them (the labels
\* are written without their diacritics)
keywords ==
  <<
    [keys |-> <<<<"p","e","n","a","l","i","z">>,
               <<"p","e","n","a","l","t","y">>,
               <<"m","u","l","t","a">>>>,
     msg |-> "Aumenta exposicion financiera por penalizaciones."],
    [keys |-> <<<<"r","e","s","c","i","s">>,
               <<"r","e","s","c","i","s","i","U00F3","n">>,
               <<"r","e","s","o","l","u","c","i">>>>,
     msg |-> "Reduce la capacidad de terminar el contrato anticipadamente."],
    [keys |-> <<<<"p","l","a","z","o">>,
               <<"f","e","c","h","a">>,
               <<"t","e","r","m","i","n","o">>,
               <<"v","e","n","c","e">>>>,
     msg |-> "Modifica plazos; puede afectar entregables y SLA."],
    [keys |-> <<<<"p","a","g","o">>,
               <<"p","a","g","o","s">>,
               <<"f","a","c","t","u","r">>>>,
     msg |-> "Impacta flujo de caja o condiciones de cobro/pago."],
    [keys |-> <<<<"i","n","d","e","m","n">>,
               <<"i","n","d","e","m","n","i","z">>>>,
     msg |-> "Aumenta potenciales obligaciones de indemnizacion."],
    [keys |-> <<<<"c","o","n","f","i","d","e","n","c">>,
               <<"c","o","n","f","i","d","e","n","t","i","a","l">>>>,
     msg |-> "Cambia condiciones de confidencialidad; riesgo de fuga de informacion."],
    [keys |-> <<<<"j","u","r","i","s","d","i","c">>,
               <<"l","e","y"," ","a","p","l","i","c","a","b","l","e">>,
               <<"a","r","b","i","t","r","a">>>>,
     msg |-> "Cambia la jurisdiccion o mecanismo de resolucion de conflictos."],
    [keys |-> <<<<"g","a","r","a","n","t">>,
               <<"w","a","r","r","a","n","t","y">>,
               <<"g","a","r","a","n","t","U00ED","a">>>>,
     msg |-> "Modifica garantias y responsabilidades por defectos."]
  >>

\* k in s
contains(s, k) ==
  \E p \in 0..(Len(s) - Len(k)) : SubSeq(s, p + 1, p + Len(k)) = k

\* list(dict.fromkeys(labels)): the first occurrence of each label
RECURSIVE unique(_)
unique(labels) ==
  IF labels = <<>> THEN <<>>
  ELSE LET r == unique(SubSeq(labels, 1, Len(labels) - 1))
           x == labels[Len(labels)]
       IN  IF \E k \in 1..Len(r) : r[k] = x THEN r ELSE Append(r, x)

\* the inner loop stops after the family's first key, hit or not
family_hit_first(fam, norm_terms) == contains(norm_terms, fam.keys[1])

\* whether the inner loop over a family's keys reaches a key in norm_terms
family_hit(fam, norm_terms) ==
  \E k \in 1..Len(fam.keys) : contains(norm_terms, fam.keys[k])

RECURSIVE scan_families(_, _)
scan_families(fams, norm_terms) ==
  IF fams = <<>> THEN <<>>
  ELSE (IF family_hit(Head(fams), norm_terms) THEN <<Head(fams).msg>> ELSE <<>>)
       \o scan_families(Tail(fams), norm_terms)

infer_implications_from_terms(terms) ==
  LET norm_terms == Join([k \in 1..Len(terms) |-> normalize(terms[k])], <<" ">>)
  IN  unique(scan_families(keywords, norm_terms))

\* ------------------------------------------------------------ highlight_changes
new_words_original == split(text_new)
old_words_original == split(text_old)
norm_new_words == split(normalize(text_new))
norm_old_words == split(normalize(text_old))

\* the inner loops of an opcode's branch: a replace has two, the new side
\* first; the others have one
phases(o) == IF o.tag = "replace" THEN 2 ELSE 1

loop_len(o, ph) ==
  CASE o.tag = "equal" -> o.j2 - o.j1
    [] o.tag = "insert" -> o.j2 - o.j1
    [] o.tag = "delete" -> o.i2 - o.i1
    [] o.tag = "replace" -> IF ph = 1 THEN o.j2 - o.j1 ELSE o.i2 - o.i1
    [] OTHER -> 0

\* the next loop with at least one iteration, from loop ph of opcode o on
RECURSIVE settle(_, _, _)
settle(ops, o, ph) ==
  IF o > Len(ops) THEN [op |-> o, phase |-> 1]
  ELSE IF ph > phases(ops[o]) THEN settle(ops, o + 1, 1)
  ELSE IF loop_len(ops[o], ph) <= 0 THEN settle(ops, o, ph + 1)
  ELSE [op |-> o, phase |-> ph]

\* the guard of every inner loop's body
in_bounds(idx, words) == idx < Len(words)

\* words[idx]; an index past the end (an IndexError in the source) yields the
\* empty token, and the action that read it records it in read_oob
word_at(words, idx) == IF idx < Len(words) THEN words[idx + 1] ELSE <<>>

entry(w, cat, npos, opos) == [word |-> w, cat |-> cat, npos |-> npos, opos |-> opos]

\* one iteration of the current loop is over
Advance ==
  IF cnt + 1 < loop_len(opcodes[op], phase)
  THEN /\ cnt' = cnt + 1
       /\ UNCHANGED <<op, phase>>
  ELSE LET nxt == settle(opcodes, op, phase + 1)
       IN  /\ op' = nxt.op
           /\ phase' = nxt.phase
           /\ cnt' = 0

InLoop(tag, ph) ==
  /\ pc = "walk"
  /\ op <= Len(opcodes)
  /\ opcodes[op].tag = tag
  /\ phase = ph

\* lines 78-105: the texts, their normal forms, the opcodes, the cursors
Compare ==
  /\ pc = "start"
  /\ opcodes' = get_opcodes(norm_old_words, norm_new_words)
  /\ LET nxt == settle(opcodes', 1, 1)
     IN  op' = nxt.op /\ phase' = nxt.phase
  /\ cnt' = 0
  /\ idx_new_word' = 0
  /\ idx_old_word' = 0
  /\ stream' = <<>>
  /\ added_words' = <<>>
  /\ deleted_words' = <<>>
  /\ replaced_old' = <<>>
  /\ replaced_new' = <<>>
  /\ pc' = "walk"
  /\ UNCHANGED <<text_old, text_new, read_oob, summary, implications, fvars>>

\* lines 108-113
WalkEqual ==
  /\ InLoop("equal", 1)
  /\ IF in_bounds(idx_new_word, new_words_original)
     THEN /\ stream' = Append(stream,
                 entry(word_at(new_words_original, idx_new_word), "unchanged",
                       idx_new_word, idx_old_word))
          /\ read_oob' = (read_oob \/ idx_new_word >= Len(new_words_original))
          /\ idx_new_word' = idx_new_word + 1
          /\ idx_old_word' = idx_old_word + 1
     ELSE UNCHANGED <<stream, read_oob, idx_new_word, idx_old_word>>
  /\ Advance
  /\ UNCHANGED <<text_old, text_new, pc, opcodes, added_words, deleted_words,
                 replaced_old, replaced_new, summary, implications, fvars>>

\* lines 115-120
WalkReplaceNew ==
  /\ InLoop("replace", 1)
  /\ IF in_bounds(idx_new_word, new_words_original)
     THEN /\ stream' = Append(stream,
                 entry(word_at(new_words_original, idx_new_word), "replaced_new",
                       idx_new_word, -1))
          /\ replaced_new' = Append(replaced_new,
                                    word_at(new_words_original, idx_new_word))
          /\ read_oob' = (read_oob \/ idx_new_word >= Len(new_words_original))
          /\ idx_new_word' = idx_new_word + 1
     ELSE UNCHANGED <<stream, replaced_new, read_oob, idx_new_word>>
  /\ Advance
  /\ UNCHANGED <<text_old, text_new, pc, opcodes, idx_old_word, added_words,
                 deleted_words, replaced_old, summary, implications, fvars>>

\* lines 121-126
WalkReplaceOld ==
  /\ InLoop("replace", 2)
  /\ IF in_bounds(idx_old_word, old_words_original)
     THEN /\ stream' = Append(stream,
                 entry(word_at(old_words_original, idx_old_word), "replaced_old",
                       -1, idx_old_word))
          /\ replaced_old' = Append(replaced_old,
                                    word_at(old_words_original, idx_old_word))
          /\ read_oob' = (read_oob \/ idx_old_word >= Len(old_words_original))
          /\ idx_old_word' = idx_old_word + 1
     ELSE UNCHANGED <<stream, replaced_old, read_oob, idx_old_word>>
  /\ Advance
  /\ UNCHANGED <<text_old, text_new, pc, opcodes, idx_new_word, added_words,
                 deleted_words, replaced_new, summary, implications, fvars>>

\* lines 127-133
WalkInsert ==
  /\ InLoop("insert", 1)
  /\ IF in_bounds(idx_new_word, new_words_original)
     THEN /\ stream' = Append(stream,
                 entry(word_at(new_words_original, idx_new_word), "added",
                       idx_new_word, -1))
          /\ added_words' = Append(added_words,
                                   word_at(new_words_original, idx_new_word))
          /\ read_oob' = (read_oob \/ idx_new_word >= Len(new_words_original))
          /\ idx_new_word' = idx_new_word + 1
     ELSE UNCHANGED <<stream, added_words, read_oob, idx_new_word>>
  /\ Advance
  /\ UNCHANGED <<text_old, text_new, pc, opcodes, idx_old_word, deleted_words,
                 replaced_old, replaced_new, summary, implications, fvars>>

\* lines 134-140
WalkDelete ==
  /\ InLoop("delete", 1)
  /\ IF in_bounds(idx_old_word, old_words_original)
     THEN /\ stream' = Append(stream,
                 entry(word_at(old_words_original, idx_old_word), "deleted",
                       -1, idx_old_word))
          /\ deleted_words' = Append(deleted_words,
                                     word_at(old_words_original, idx_old_word))
          /\ read_oob' = (read_oob \/ idx_old_word >= Len(old_words_original))
          /\ idx_old_word' = idx_old_word + 1
     ELSE UNCHANGED <<stream, deleted_words, read_oob, idx_old_word>>
  /\ Advance
  /\ UNCHANGED <<text_old, text_new, pc, opcodes, idx_new_word, added_words,
                 replaced_old, replaced_new, summary, implications, fvars>>

\* lines 142-163: the opcodes are exhausted; the summary is returned
Summarize ==
  /\ pc = "walk"
  /\ op > Len(opcodes)
  /\ summary' = summary_of(added_words, deleted_words, replaced_old, replaced_new)
  /\ pc' = "returned"
  /\ UNCHANGED <<text_old, text_new, opcodes, op, phase, cnt, idx_new_word,
                 idx_old_word, stream, added_words, deleted_words, replaced_old,
                 replaced_new, read_oob, implications, fvars>>

\* lines 240-241: the caller classifies the changed terms
Report ==
  /\ pc = "returned"
  /\ implications' = infer_implications_from_terms(
        summary.raw_lists.added \o summary.raw_lists.deleted
        \o summary.raw_lists.replaced_new \o summary.raw_lists.replaced_old)
  /\ pc' = "done"
  /\ UNCHANGED <<text_old, text_new, opcodes, op, phase, cnt, idx_new_word,
                 idx_old_word, stream, added_words, deleted_words, replaced_old,
                 replaced_new, read_oob, summary, fvars>>

Next ==
  \/ Compare
  \/ WalkEqual
  \/ WalkReplaceNew
  \/ WalkReplaceOld
  \/ WalkInsert
  \/ WalkDelete
  \/ Summarize
  \/ Report

\* ------------------------------------------------------------ inputs
\* the characters of the character-level texts: a letter, a space, a
\* character with an empty transliteration and one with a space in it
Chars == {"a", " ", "U0300", "U963F"}

\* extract_text_from_docx joins the paragraphs that are not blank: the text
\* is empty or holds a character that is not whitespace
is_extracted(text) == text = <<>> \/ \E k \in 1..Len(text) : ~IsSpace(text[k])

Texts == {t \in SeqsUpTo(Chars, MaxLen) : is_extracted(t)}

\* the words of the word-level texts
Words == {<<"a">>, <<"b">>}

WordTexts == {Join(ws, <<" ">>) : ws \in SeqsUpTo(Words, MaxTok)}

PipelineStart ==
  /\ pc = "start"
  /\ opcodes = <<>>
  /\ op = 1
  /\ phase = 1
  /\ cnt = 0
  /\ idx_new_word = 0
  /\ idx_old_word = 0
  /\ stream = <<>>
  /\ added_words = <<>>
  /\ deleted_words = <<>>
  /\ replaced_old = <<>>
  /\ replaced_new = <<>>
  /\ read_oob = FALSE
  /\ summary = <<>>
  /\ implications = <<>>
  /\ fin = <<>>
  /\ fout = <<>>
  /\ fpc = "idle"

Init ==
  /\ text_old \in Texts
  /\ text_new \in Texts
  /\ PipelineStart

Spec == Init /\ [][Next]_vars

InitWords ==
  /\ text_old \in WordTexts
  /\ text_new \in WordTexts
  /\ PipelineStart

SpecWords == InitWords /\ [][Next]_vars

\* ------------------------------------------------------------ the summary and the classifier on their own
PipelineIdle ==
  /\ text_old = <<>>
  /\ text_new = <<>>
  /\ pc = "idle"
  /\ opcodes = <<>>
  /\ op = 1
  /\ phase = 1
  /\ cnt = 0
  /\ idx_new_word = 0
  /\ idx_old_word = 0
  /\ stream = <<>>
  /\ added_words = <<>>
  /\ deleted_words = <<>>
  /\ replaced_old = <<>>
  /\ replaced_new = <<>>
  /\ read_oob = FALSE
  /\ summary = <<>>
  /\ implications = <<>>

Categories == {"added", "deleted", "replaced_old", "replaced_new"}

\* surface tokens of the short category lists: two of them share a normal form
RankWords == {<<"a">>, <<"A">>, <<"b">>}

\* the first n letters, one token each: n pairwise distinct normal forms
distinct_words(n) == [k \in 1..n |-> <<LowerCase[k]>>]

\* the tokens put before and after them: the first letter and the letters
\* around the cut of the ranking
LetterWords == {<<LowerCase[k]>> : k \in {1, top_n, top_n + 1, top_n + 2}}

\* a list of top_n or top_n + 1 distinct tokens with a few tokens before and after
LongLists ==
  UNION {{pre \o distinct_words(n) \o post :
            n \in {top_n, top_n + 1},
            post \in SeqsUpTo(LetterWords, MaxExtra - Len(pre))} :
         pre \in SeqsUpTo(LetterWords, MaxExtra)}

RankLists == SeqsUpTo(RankWords, MaxRankLen) \cup LongLists

words_of(in, cat) == IF in.cat = cat THEN in.words ELSE <<>>

InitRank ==
  /\ PipelineIdle
  /\ fin \in [cat : Categories, words : RankLists]
  /\ fout = <<>>
  /\ fpc = "in"

\* lines 145-162 on the four category lists
Aggregate ==
  /\ fpc = "in"
  /\ fout' = summary_of(words_of(fin, "added"), words_of(fin, "deleted"),
                        words_of(fin, "replaced_old"), words_of(fin, "replaced_new"))
  /\ fpc' = "out"
  /\ UNCHANGED <<fin, pvars>>

NextRank == Aggregate

SpecRank == InitRank /\ [][NextRank]_vars

\* changed terms as the documents spell them
Terms ==
  {<<"M","u","l","t","a">>,
   <<"r","e","s","c","i","s","i","U00F3","n">>,
   <<"p","l","a","z","o">>,
   <<"p","a","g","o","s">>,
   <<"i","n","d","e","m","n","i","z","a","r">>,
   <<"c","o","n","f","i","d","e","n","c","i","a","l">>,
   <<"l","e","y">>,
   <<"a","p","l","i","c","a","b","l","e">>,
   <<"g","a","r","a","n","t","U00ED","a">>,
   <<"o","t","r","o">>,
   <<"p","e","n","a","l">>,
   <<"i","z","a","r">>}

InitClassify ==
  /\ PipelineIdle
  /\ fin \in SeqsUpTo(Terms, MaxTerms)
  /\ fout = <<>>
  /\ fpc = "in"

\* lines 165-187
Classify ==
  /\ fpc = "in"
  /\ fout' = infer_implications_from_terms(fin)
  /\ fpc' = "out"
  /\ UNCHANGED <<fin, pvars>>

NextClassify == Classify

SpecClassify == InitClassify /\ [][NextClassify]_vars

\* ------------------------------------------------------------ properties
Walked == pc \in {"walk", "returned", "done"}
Returned == pc \in {"returned", "done"}

stream_words == [k \in 1..Len(stream) |-> stream[k].word]

\* C1: total coverage.  When highlight_changes has walked all opcodes, both
\* cursors stand at the end of their original token lists, and every index of
\* old_words_original and of new_words_original was consumed by exactly one
\* emitted entry (unchanged, deleted or replaced-old for the old side;
\* unchanged, added or replaced-new for the new side).
C1_TotalCoverage ==
  pc = "returned" =>
    /\ idx_old_word = Len(old_words_original)
    /\ idx_new_word = Len(new_words_original)
    /\ \A q \in 0..(Len(old_words_original) - 1) :
         Cardinality({k \in 1..Len(stream) : stream[k].opos = q}) = 1
    /\ \A q \in 0..(Len(new_words_original) - 1) :
         Cardinality({k \in 1..Len(stream) : stream[k].npos = q}) = 1

\* C3: identity case.  When the old and the new text are the same text, the
\* four counts are zero and the emitted stream is exactly the tokens of the
\* text, in order, all unchanged; when both are empty the stream is empty and
\* the classifier returns no label.
C3_Identity ==
  (Returned /\ text_old = text_new) =>
    /\ summary.counts = [added |-> 0, deleted |-> 0,
                         replaced_old |-> 0, replaced_new |-> 0]
    /\ stream_words = new_words_original
    /\ \A k \in 1..Len(stream) : stream[k].cat = "unchanged"
    /\ (text_new = <<>> => stream = <<>>)
    /\ (text_new = <<>> /\ pc = "done" => implications = <<>>)

\* C5: malformed edit scripts are fatal.  The comparison returns a summary
\* only if the opcodes it walked exactly partition both original token lists:
\* consecutive, from index 0 to the length of old_words_original and of
\* new_words_original.
C5_MalformedScriptIsFatal ==
  Returned =>
    /\ \A k \in 1..(Len(opcodes) - 1) :
         opcodes[k + 1].i1 = opcodes[k].i2 /\ opcodes[k + 1].j1 = opcodes[k].j2
    /\ IF opcodes = <<>>
       THEN old_words_original = <<>> /\ new_words_original = <<>>
       ELSE /\ opcodes[1].i1 = 0
            /\ opcodes[1].j1 = 0
            /\ opcodes[Len(opcodes)].i2 = Len(old_words_original)
            /\ opcodes[Len(opcodes)].j2 = Len(new_words_original)

\* C9: cursor overrun guard.  In every state of the walk each cursor lies
\* between 0 and the length of its original token list, and no token was
\* read at an index past the end of its list.
C9_CursorsInBounds ==
  Walked =>
    /\ 0 <= idx_new_word /\ idx_new_word <= Len(new_words_original)
    /\ 0 <= idx_old_word /\ idx_old_word <= Len(old_words_original)
    /\ ~read_oob

\* C10: the opcodes over the normalized tokens fit the original tokens.
\* normalize keeps the number of tokens of both texts; at the start of each
\* opcode the cursors equal its i1 and j1; and every token emitted as
\* unchanged has the normal form of the old token under the old cursor.
C10_NormalizedAlignsOriginal ==
  Walked =>
    /\ Len(norm_old_words) = Len(old_words_original)
    /\ Len(norm_new_words) = Len(new_words_original)
    /\ (pc = "walk" /\ op <= Len(opcodes) /\ phase = 1 /\ cnt = 0 =>
          idx_old_word = opcodes[op].i1 /\ idx_new_word = opcodes[op].j1)
    /\ \A k \in 1..Len(stream) :
         stream[k].cat = "unchanged" =>
           /\ stream[k].opos < Len(old_words_original)
           /\ normalize(stream[k].word)
                = normalize(old_words_original[stream[k].opos + 1])

no_counts == [added |-> 0, deleted |-> 0, replaced_old |-> 0, replaced_new |-> 0]

all_cat(cat) == \A k \in 1..Len(stream) : stream[k].cat = cat

\* C4 as claimed: when either text is empty, the summary returned is empty
\* (four zero counts, four empty top lists) and so is the stream.
C4_EmptySummary ==
  (Returned /\ (text_old = <<>> \/ text_new = <<>>)) =>
    /\ summary.counts = no_counts
    /\ summary.added_top = <<>>
    /\ summary.deleted_top = <<>>
    /\ summary.replaced_old_top = <<>>
    /\ summary.replaced_new_top = <<>>
    /\ stream = <<>>

\* C4 as amended: when either text is empty, nothing is reported unchanged
\* or replaced.  With an empty old text nothing is deleted, and the stream is
\* the first min(aligned tokens, tokens) tokens of the new text, all added;
\* with an empty new text nothing is added, and the stream is the first
\* tokens of the old text, all deleted.  With both empty the summary and the
\* stream are empty.
C4_EmptySide ==
  (Returned /\ (text_old = <<>> \/ text_new = <<>>)) =>
    /\ summary.counts.replaced_old = 0
    /\ summary.counts.replaced_new = 0
    /\ summary.replaced_old_top = <<>>
    /\ summary.replaced_new_top = <<>>
    /\ text_old = <<>> =>
         /\ summary.counts.deleted = 0
         /\ summary.counts.added
              = Min(Len(norm_new_words), Len(new_words_original))
         /\ all_cat("added")
         /\ stream_words = SubSeq(new_words_original, 1, summary.counts.added)
    /\ text_new = <<>> =>
         /\ summary.counts.added = 0
         /\ summary.counts.deleted
              = Min(Len(norm_old_words), Len(old_words_original))
         /\ all_cat("deleted")
         /\ stream_words = SubSeq(old_words_original, 1, summary.counts.deleted)
    /\ (text_old = <<>> /\ text_new = <<>>) =>
         /\ summary.counts = no_counts
         /\ summary.added_top = <<>>
         /\ summary.deleted_top = <<>>
         /\ stream = <<>>

\* a comparison of an empty old text with a new text of two tokens has returned
C4_Witness ==
  /\ pc = "returned"
  /\ text_old = <<>>
  /\ Len(new_words_original) = 2
  /\ summary.counts.added = 2
  /\ summary.added_top # <<>>

\* C2: partition invariant of the edit script.  The opcodes over the two
\* normalized token sequences are in ascending order, start at i1 = 0 and
\* j1 = 0, each starts where the previous one ended on both sides, none is
\* empty on both sides, and the last ends at the two lengths; two empty
\* sequences give no opcode.
C2_Partition ==
  Walked =>
    /\ \A k \in 1..Len(opcodes) :
         /\ opcodes[k].i1 <= opcodes[k].i2
         /\ opcodes[k].j1 <= opcodes[k].j2
         /\ opcodes[k].i1 < opcodes[k].i2 \/ opcodes[k].j1 < opcodes[k].j2
    /\ \A k \in 1..(Len(opcodes) - 1) :
         opcodes[k + 1].i1 = opcodes[k].i2 /\ opcodes[k + 1].j1 = opcodes[k].j2
    /\ IF opcodes = <<>>
       THEN norm_old_words = <<>> /\ norm_new_words = <<>>
       ELSE /\ opcodes[1].i1 = 0
            /\ opcodes[1].j1 = 0
            /\ opcodes[Len(opcodes)].i2 = Len(norm_old_words)
            /\ opcodes[Len(opcodes)].j2 = Len(norm_new_words)

\* an edit script of three opcodes with a replace followed by an equal and
\* a trailing stretch
C2_Witness ==
  /\ pc = "walk"
  /\ Len(opcodes) = 3
  /\ opcodes[1].tag = "replace"
  /\ opcodes[2].tag = "equal"
  /\ opcodes[3].tag \in {"insert", "delete"}

RECURSIVE lcs_len(_, _)
lcs_len(a, b) ==
  IF a = <<>> \/ b = <<>> THEN 0
  ELSE IF Head(a) = Head(b) THEN 1 + lcs_len(Tail(a), Tail(b))
  ELSE LET x == lcs_len(Tail(a), b)
           y == lcs_len(a, Tail(b))
       IN  IF x >= y THEN x ELSE y

RECURSIVE equal_total(_)
equal_total(ops) ==
  IF ops = <<>> THEN 0
  ELSE (IF Head(ops).tag = "equal" THEN Head(ops).i2 - Head(ops).i1 ELSE 0)
       + equal_total(Tail(ops))

\* C6 as claimed: the tokens covered by 'equal' opcodes are as many as a
\* longest common subsequence of the two normalized token sequences.
C6_Minimal ==
  Walked => equal_total(opcodes) = lcs_len(norm_old_words, norm_new_words)

\* C6 as amended: every 'equal' opcode covers the same tokens on both sides,
\* and the tokens covered by 'equal' opcodes are at most as many as a longest
\* common subsequence of the two normalized token sequences.
C6_MatchingBlocks ==
  Walked =>
    /\ \A k \in 1..Len(opcodes) :
         opcodes[k].tag = "equal" =>
           SubSeq(norm_old_words, opcodes[k].i1 + 1, opcodes[k].i2)
             = SubSeq(norm_new_words, opcodes[k].j1 + 1, opcodes[k].j2)
    /\ equal_total(opcodes) <= lcs_len(norm_old_words, norm_new_words)

\* an edit script that keeps fewer tokens than a longest common subsequence
C6_Witness ==
  /\ pc = "walk"
  /\ equal_total(opcodes) > 0
  /\ equal_total(opcodes) < lcs_len(norm_old_words, norm_new_words)

top_for(sm, cat) ==
  CASE cat = "added" -> sm.added_top
    [] cat = "deleted" -> sm.deleted_top
    [] cat = "replaced_old" -> sm.replaced_old_top
    [] cat = "replaced_new" -> sm.replaced_new_top

\* the normal forms of a category list, the occurrences of a form in it and
\* the index of its first occurrence
forms_of(words) == [k \in 1..Len(words) |-> normalize(words[k])]
occurrences(forms, f) == Cardinality({k \in 1..Len(forms) : forms[k] = f})
first_at(forms, f) == CHOOSE k \in 1..Len(forms) :
                        forms[k] = f /\ \A k2 \in 1..(k - 1) : forms[k2] # f

\* form f is ranked before form g
ranked_before(forms, f, g) ==
  \/ occurrences(forms, f) > occurrences(forms, g)
  \/ /\ occurrences(forms, f) = occurrences(forms, g)
     /\ first_at(forms, f) < first_at(forms, g)

\* C7: ranking.  The top list of a category holds (normal form, count) pairs,
\* the count being the number of tokens of the category list with that normal
\* form; no form twice; counts never increase down the list and forms with
\* equal counts keep the order of their first occurrence; the list holds the
\* first 15 entries of that ranking (every form left out ranks after every
\* form listed); and counts[category] is the length of the category list.
C7_Ranking ==
  fpc = "out" /\ fin.cat \in Categories =>
    LET forms == forms_of(fin.words)
        top == top_for(fout, fin.cat)
        listed == {top[k].form : k \in 1..Len(top)}
        all == {forms[k] : k \in 1..Len(forms)}
    IN  /\ \A k \in 1..Len(top) :
             /\ top[k].form \in all
             /\ top[k].n = occurrences(forms, top[k].form)
        /\ \A k \in 1..Len(top) : \A l \in (k + 1)..Len(top) :
             /\ top[k].n >= top[l].n
             /\ ranked_before(forms, top[k].form, top[l].form)
        /\ Len(top) = Min(15, Cardinality(all))
        /\ \A f \in all \ listed : \A g \in listed : ranked_before(forms, g, f)
        /\ fout.counts[fin.cat] = Len(fin.words)
        /\ fout.raw_lists[fin.cat] = fin.words

\* a list with more than 15 normal forms, a tie among the listed forms and a
\* repeated form that was first seen after 15 others
C7_Witness ==
  /\ fpc = "out"
  /\ fin.cat = "deleted"
  /\ Len(fout.deleted_top) = 15
  /\ Cardinality({normalize(fin.words[k]) : k \in 1..Len(fin.words)}) = 17
  /\ fout.deleted_top[1].form = <<"q">>
  /\ fout.deleted_top[1].n = 2
  /\ fout.deleted_top[2].n = 1
  /\ fout.deleted_top[3].n = 1

label_at(labels, m) == \E k \in 1..Len(labels) : labels[k] = m

\* the terms normalized one by one and joined by single spaces
joined_terms(terms) ==
  Join([k \in 1..Len(terms) |-> normalize(terms[k])], <<" ">>)

\* C8: classifier.  A family's label is returned exactly when one of the
\* family's keywords occurs in the string of the normalized terms joined by
\* single spaces; no label is returned twice; the labels come in the order
\* in which the families are declared.
C8_Classifier ==
  fpc = "out" /\ pc = "idle" /\ fin \in Seq(Terms) =>
    LET text == joined_terms(fin)
    IN  /\ \A f \in 1..Len(keywords) :
             label_at(fout, keywords[f].msg)
               <=> \E k \in 1..Len(keywords[f].keys) :
                     contains(text, keywords[f].keys[k])
        /\ \A k \in 1..Len(fout) : \A l \in (k + 1)..Len(fout) :
             fout[k] # fout[l]
        /\ \A k \in 1..Len(fout) : \A l \in (k + 1)..Len(fout) :
             \E f \in 1..Len(keywords) : \E g \in (f + 1)..Len(keywords) :
               fout[k] = keywords[f].msg /\ fout[l] = keywords[g].msg

\* the guarantee comes before the fine in the terms, and after it in the labels
C8_Witness ==
  /\ fpc = "out"
  /\ fin = << <<"g","a","r","a","n","t","U00ED","a">>, <<"M","u","l","t","a">> >>
  /\ fout = <<keywords[1].msg, keywords[8].msg>>

====
